---------------------------- MODULE Spec2Model ----------------------------
(***************************************************************************)
(* faker_order_generator: the order stream of main.py and                  *)
(* OrderDataSource (order_data_source.py), with constants.py.              *)
(*                                                                         *)
(* Three specifications share the variables:                               *)
(*   Spec       __main__: construction, the lazy stream, the consumer's    *)
(*              print, the interruption signal.  A record is identified    *)
(*              by its (user_id, order_num) pair.                          *)
(*   SpecDate   _get_next_black_friday_date() for every value of today.    *)
(*   SpecOrder  _generate_random_order_data(): the content of one order,   *)
(*              drawn from the shared, re-seeded random source.            *)
(*                                                                         *)
(* Money is counted in cents (1.00 = 100), rates and weights in integer    *)
(* parts of their total, a date is a record [year, month, day].            *)
(***************************************************************************)
EXTENDS Integers, Sequences, FiniteSets, TLC

VARIABLES
    pc,                 \* position of the running program
    today,              \* date.today()
    file_exists,        \* whether products_json_file can be opened
    max_total_orders,   \* self.max_total_orders
    num_users,          \* self.num_users
    max_num_items,      \* self.max_num_items
    products_json,      \* self.products_json: <<type, <<description, ...>>>>, ...
    date,               \* self.date
    pending,            \* pairs of the shuffled all_orders not reached yet
    total_orders,       \* the enumerate() counter of the stream's loop
    emitted,            \* pairs of the records yielded so far
    n_yielded,          \* number of records yielded by the stream
    n_printed,          \* number of lines printed by __main__
    synth_calls,        \* calls of _generate_random_order_data
    interrupted_at,     \* where the interruption signal was delivered
    raised,             \* the exception that reached __main__
    exit_code,          \* the process's exit status (-1: running)
    rng,                \* state of the shared random source (module random)
    mt_salt,            \* the fixed, opaque seeding of the random algorithm
    order,              \* the order last built by _generate_random_order_data
    first_by_num        \* per order_num, the seeded fields of user 1's first order with it

vars == <<pc, today, file_exists, max_total_orders, num_users, max_num_items,
          products_json, date, pending, total_orders, emitted, n_yielded,
          n_printed, synth_calls, interrupted_at, raised, exit_code, rng,
          mt_salt, order, first_by_num>>

-----------------------------------------------------------------------------
(* Bounds of the model *)

FirstYear == 2020
NumYears == 28
MaxUsers == 1
MaxUserId == 2
MaxItemsArg == 2
MaxOrderNum == 2
MaxEntropy == 4
RngMod == 100

-----------------------------------------------------------------------------
(* constants.py *)

BLACK_FRIDAY_MONTH == 11
BLACK_FRIDAY_START_DAY == 1
BLACK_FRIDAY_WEEK == 4

\* weights in tenths / hundredths, in the order of the file
WEIGHTS_COUPON_APPLIED_swapped == <<3, 7>>

WEIGHTS_COUPON_APPLIED == <<7, 3>>

WEIGHTS_PAYMENT_METHODS == <<75, 5, 5, 5, 5, 5>>
WEIGHTS_SHIPPING_METHOD == <<7, 2, 1>>
WEIGHTS_SUBSCRIBER_USER == <<5, 5>>

MAX_NUM_ITEMS_PER_USER == 10
MAX_NUMBER_USERS == 50
TOTAL_ORDERS == 1000

None == [none |-> TRUE]

-----------------------------------------------------------------------------
(* datetime.date, dateutil.relativedelta *)

THURSDAY == 3
FRIDAY == THURSDAY + 1

IsLeap(y) == (y % 4 = 0 /\ y % 100 /= 0) \/ y % 400 = 0

DaysInMonth(y, m) ==
    IF m = 2 THEN (IF IsLeap(y) THEN 29 ELSE 28)
    ELSE IF m \in {4, 6, 9, 11} THEN 30 ELSE 31

RECURSIVE DaysBeforeMonth(_, _)
DaysBeforeMonth(y, m) ==
    IF m = 1 THEN 0 ELSE DaysBeforeMonth(y, m - 1) + DaysInMonth(y, m - 1)

\* date.toordinal(): 0001-01-01 is day 1
toordinal(d) ==
    LET y == d.year - 1
    IN  (y * 365) + (y \div 4) - (y \div 100) + (y \div 400)
        + DaysBeforeMonth(d.year, d.month) + d.day

\* date.weekday(): Monday is 0
weekday(d) == (toordinal(d) + 6) % 7

\* date + timedelta(days = n), n >= 0
RECURSIVE add_days(_, _)
add_days(d, n) ==
    IF n = 0 THEN d
    ELSE IF d.day < DaysInMonth(d.year, d.month)
         THEN add_days([d EXCEPT !.day = d.day + 1], n - 1)
    ELSE IF d.month < 12
         THEN add_days([year |-> d.year, month |-> d.month + 1, day |-> 1], n - 1)
    ELSE add_days([year |-> d.year + 1, month |-> 1, day |-> 1], n - 1)

\* date + relativedelta(years = 1): the day is clamped to the month's length
add_one_year(d) ==
    LET y == d.year + 1
        last == DaysInMonth(y, d.month)
    IN  [year |-> y, month |-> d.month, day |-> IF d.day > last THEN last ELSE d.day]

\* date + relativedelta(weekday = wd(nth)), nth > 0: the nth wd on or after d
add_weekday(d, wd, nth) ==
    add_days(d, ((nth - 1) * 7) + ((7 - weekday(d) + wd) % 7))

\* date.replace(month = m, day = dd)
replace_month_day(d, m, dd) == [year |-> d.year, month |-> m, day |-> dd]

\* date.strftime('%m/%d/%Y')
strftime(d) == <<d.month, d.day, d.year>>

-----------------------------------------------------------------------------
(* OrderDataSource._get_next_black_friday_date *)

next_black_friday_no_friday(t) ==
    LET d1 == IF t.month > BLACK_FRIDAY_MONTH
                 \/ (t.month = BLACK_FRIDAY_MONTH
                     /\ t.day > BLACK_FRIDAY_START_DAY + BLACK_FRIDAY_WEEK)
              THEN add_one_year(t) ELSE t
        d2 == replace_month_day(d1, BLACK_FRIDAY_MONTH, BLACK_FRIDAY_START_DAY)
    IN  add_weekday(d2, THURSDAY, BLACK_FRIDAY_WEEK)

get_next_black_friday_date(t) ==
    LET d1 == IF t.month > BLACK_FRIDAY_MONTH
                 \/ (t.month = BLACK_FRIDAY_MONTH
                     /\ t.day > BLACK_FRIDAY_START_DAY + BLACK_FRIDAY_WEEK)
              THEN add_one_year(t) ELSE t
        d2 == replace_month_day(d1, BLACK_FRIDAY_MONTH, BLACK_FRIDAY_START_DAY)
        d3 == add_weekday(d2, THURSDAY, BLACK_FRIDAY_WEEK)
    IN  add_days(d3, 1)

-----------------------------------------------------------------------------
(* The random sources: module random (shared) and Faker's own instance.    *)
(* Both are the same deterministic algorithm: a state, a step, and a       *)
(* seeding that maps a seed to a state.  The algorithm is fixed but opaque *)
(* to the program: the seeding is offset by mt_salt, chosen once.          *)

\* one step of the generator: a full-period congruential step stands for the
\* library's algorithm, of which the program uses only that it is deterministic
rng_next(s) == ((21 * s) + 7) % RngMod

RECURSIVE rng_advance(_, _)
rng_advance(s, k) == IF k = 0 THEN s ELSE rng_advance(rng_next(s), k - 1)

\* random.seed(n) / Faker.seed_instance(n)
seed(n, salt) == (n + salt) % RngMod

\* random.randint(a, b), drawn in state s
randint(s, a, b) == a + ((s * (b - a + 1)) \div RngMod)

\* random.choice(xs), drawn in state s
choice(xs, s) == xs[1 + ((s * Len(xs)) \div RngMod)]

RECURSIVE SumSeq(_)
SumSeq(xs) == IF xs = <<>> THEN 0 ELSE Head(xs) + SumSeq(Tail(xs))

\* round(x, 2) of x = num / den hundredths: to the nearest, ties to even
RoundHalfEven(num, den) ==
    LET q == num \div den
        r2 == 2 * (num % den)
    IN  IF r2 < den THEN q
        ELSE IF r2 > den THEN q + 1
        ELSE IF q % 2 = 0 THEN q ELSE q + 1

\* round(random.uniform(a, b), 2) with a = a_num / den, b = b_num / den
\* hundredths, drawn in state s: a + (b - a) * random()
uniform_rounded(s, a_num, b_num, den) ==
    RoundHalfEven((a_num * RngMod) + ((b_num - a_num) * s), den * RngMod)

-----------------------------------------------------------------------------
(* OrderDataSource._random_choice_with_weights: random.choices(k = 1)      *)

\* bisect(cum_weights, random() * total): the first index whose cumulative
\* weight exceeds the draw
RECURSIVE bisect_weights(_, _, _, _, _)
bisect_weights(weights, s, total, i, acc) ==
    IF i >= Len(weights) \/ (acc + weights[i]) * RngMod > s * total THEN i
    ELSE bisect_weights(weights, s, total, i + 1, acc + weights[i])

random_choice_with_weights(choices, weights, s) ==
    choices[bisect_weights(weights, s, SumSeq(weights), 1, 0)]

-----------------------------------------------------------------------------
(* PaymentMethods, DISCOUNT_COUPONS (values in hundredths)                 *)

PaymentMethods ==
    <<"Credit Card", "Debit Card", "PayPal", "Digital Wallet", "BLPL", "COD">>

DISCOUNT_COUPONS_whole_units ==
    << <<"FRIDAYFIVEOFF", 500>>, <<"BLACK10%", 1000>>,
       <<"BF15DISCOUNT", 1500>>, <<"20OFFFOURYOUBF", 2000>> >>

DISCOUNT_COUPONS ==
    << <<"FRIDAYFIVEOFF", 5>>, <<"BLACK10%", 10>>,
       <<"BF15DISCOUNT", 15>>, <<"20OFFFOURYOUBF", 20>> >>

-----------------------------------------------------------------------------
(* OrderDataSource._apply_discount_coupon, drawn from state s              *)

apply_discount_coupon(s) ==
    LET is_coupon_applied ==
            random_choice_with_weights(<<TRUE, FALSE>>, WEIGHTS_COUPON_APPLIED, s)
        s1 == rng_next(s)
        coupon == choice(DISCOUNT_COUPONS, s1)
    IN  IF is_coupon_applied
        THEN [applied |-> TRUE, description |-> coupon[1], value |-> coupon[2],
              draw |-> s, rng |-> rng_next(s1)]
        ELSE [applied |-> FALSE, description |-> "", value |-> 0,
              draw |-> s, rng |-> s1]

-----------------------------------------------------------------------------
(* OrderDataSource._generate_random_product_data                           *)

\* the state random.seed(order_num) leaves the shared source in
product_seed_not_reseeded(order_num, rng_in, salt) == rng_in

product_seed(order_num, rng_in, salt) == seed(order_num, salt)

\* the k items drawn from state s: type, description, price, three draws each
RECURSIVE product_items(_, _, _)
product_items(catalog, s, k) ==
    IF k = 0 THEN <<>>
    ELSE LET entry == choice(catalog, s)
             s1 == rng_next(s)
             description == choice(entry[2], s1)
             s2 == rng_next(s1)
             price == uniform_rounded(s2, 100, 10000, 1)
         IN  <<[type |-> entry[1], description |-> description, price |-> price]>>
             \o product_items(catalog, rng_next(s2), k - 1)

generate_random_product_data(order_num, rng_in, salt, catalog, max_items) ==
    LET s0 == product_seed(order_num, rng_in, salt)
        n == randint(s0, 1, max_items)
        s1 == rng_next(s0)
    IN  [items |-> product_items(catalog, s1, n), rng |-> rng_advance(s1, 3 * n)]

-----------------------------------------------------------------------------
(* OrderDataSource._generate_shipping_data                                 *)

shipping_cost_always_charged(subscriber_user, total_order_price, s) ==
    uniform_rounded(s, total_order_price, 10 * total_order_price, 100)

shipping_cost(subscriber_user, total_order_price, s) ==
    IF subscriber_user THEN 0
    ELSE uniform_rounded(s, total_order_price, 10 * total_order_price, 100)

generate_shipping_data(subscriber_user, total_order_price, order_date, s) ==
    LET shipping_method ==
            random_choice_with_weights(<<"Standard", "Expedited", "Next Day">>,
                                       WEIGHTS_SHIPPING_METHOD, s)
        s1 == rng_next(s)
        cost == shipping_cost(subscriber_user, total_order_price, s1)
        s2 == IF subscriber_user THEN s1 ELSE rng_next(s1)
        delivery_date == add_days(order_date, randint(s2, 3, 30))
    IN  [method |-> shipping_method, cost |-> cost,
         estimated_delivery |-> strftime(delivery_date), rng |-> rng_next(s2)]

-----------------------------------------------------------------------------
(* OrderDataSource._generate_random_order_data                             *)

RECURSIVE SumPrices(_)
SumPrices(items) ==
    IF items = <<>> THEN 0 ELSE Head(items).price + SumPrices(Tail(items))

generate_random_order_data(user_id, order_num, rng_in, salt, catalog, max_items, d) ==
    LET f0 == seed(user_id + order_num, salt)
        order_id == <<d.year, d.month, f0>>
        f1 == rng_next(f0)
        subscriber_user ==
            random_choice_with_weights(<<TRUE, FALSE>>, WEIGHTS_SUBSCRIBER_USER, rng_in)
        products == generate_random_product_data(order_num, rng_next(rng_in), salt,
                                                 catalog, max_items)
        total_order_price == SumPrices(products.items)
        sA == products.rng
        payment_method ==
            random_choice_with_weights(PaymentMethods, WEIGHTS_PAYMENT_METHODS, sA)
        coupon == apply_discount_coupon(rng_next(sA))
        sB == coupon.rng
        sales_tax == uniform_rounded(sB, 1, 10, 1)
        sales_tax_value == RoundHalfEven(total_order_price * sales_tax, 100)
        gift_wrap == randint(f1, 1, 100) <= 20
        f2 == rng_next(f1)
        shipping == generate_shipping_data(subscriber_user, total_order_price, d,
                                           rng_next(sB))
    IN  \* the order's fields; order_num, coupon_draw and rng are bookkeeping: the
        \* argument, the draw that decided the coupon, the source's state after
        [order_id |-> order_id,
         order_date |-> strftime(d),
         user_id |-> user_id,
         order_num |-> order_num,
         subscriber_user |-> subscriber_user,
         ordered_items |-> products.items,
         num_ordered_items |-> Len(products.items),
         total_order_price |-> total_order_price,
         payment_method |-> payment_method,
         discount_coupon_applied |-> coupon.applied,
         discount_coupon_description |-> coupon.description,
         discount_coupon_value |-> coupon.value,
         coupon_draw |-> coupon.draw,
         sales_tax_value |-> sales_tax_value,
         gift_wrap |-> gift_wrap,
         shipping_method |-> shipping.method,
         shipping_cost |-> shipping.cost,
         estimated_delivery |-> shipping.estimated_delivery,
         platform |-> f2,
         net_total_order_price |->
             total_order_price - shipping.cost - coupon.value - sales_tax_value,
         rng |-> shipping.rng]

\* the fields drawn after the re-seed and before any subscriber-dependent draw
SeededFields(o) ==
    [ordered_items |-> o.ordered_items,
     num_ordered_items |-> o.num_ordered_items,
     total_order_price |-> o.total_order_price,
     payment_method |-> o.payment_method,
     discount_coupon_applied |-> o.discount_coupon_applied,
     discount_coupon_description |-> o.discount_coupon_description,
     discount_coupon_value |-> o.discount_coupon_value,
     sales_tax_value |-> o.sales_tax_value,
     shipping_method |-> o.shipping_method]

-----------------------------------------------------------------------------
(* Inputs *)

Catalogs ==
    { << <<"Electronics", <<"Phone">> >>, <<"Books", <<"Novel">> >> >>,
      << <<"Toys", <<"Robot", "Puzzle">> >> >> }

\* (total_orders, max_num_items) of OrderDataSource(...): the smallest
\* generator, and the arguments __main__ passes
ConstructorArgs == { <<1, 1>>, <<TOTAL_ORDERS, MAX_NUM_ITEMS_PER_USER>> }

DefaultCatalog == << <<"Electronics", <<"Phone">> >>, <<"Books", <<"Novel">> >> >>

DefaultToday == [year |-> FirstYear + 6, month |-> 6, day |-> 15]

Dates ==
    { [year |-> y, month |-> m, day |-> dd] :
        y \in FirstYear..(FirstYear + NumYears - 1), m \in 1..12, dd \in 1..31 }

ValidDates == { d \in Dates : d.day <= DaysInMonth(d.year, d.month) }

-----------------------------------------------------------------------------
(* OrderDataSource._load_product_data *)

load_product_data_swallows(exists) ==
    IF exists THEN [ok |-> TRUE, data |-> DefaultCatalog, error |-> "none"]
    ELSE [ok |-> TRUE, data |-> <<>>, error |-> "none"]

load_product_data(exists) ==
    IF exists THEN [ok |-> TRUE, data |-> DefaultCatalog, error |-> "none"]
    ELSE [ok |-> FALSE, data |-> <<>>, error |-> "FileNotFoundError"]

-----------------------------------------------------------------------------
(* OrderDataSource.source_random_order_data, __main__ *)

\* the cross product the stream builds before shuffling it
all_orders(users) ==
    { <<user_id, order_num>> :
        user_id \in 1..users, order_num \in 1..MAX_NUM_ITEMS_PER_USER }

\* `except Exception` of the stream logs and re-raises; KeyboardInterrupt is
\* no Exception and passes through it: nothing raised in the stream stays there
stream_swallows_interrupt(exc) == exc /= "KeyboardInterrupt"

stream_propagates(exc) == TRUE

\* `except KeyboardInterrupt` of __main__
main_catches(exc) == exc = "KeyboardInterrupt"

StreamVars == <<pending, total_orders, emitted, n_yielded, n_printed, synth_calls>>
ConfigVars == <<today, file_exists, max_total_orders, num_users, max_num_items>>
OrderVars == <<rng, mt_salt, order, first_by_num>>

\* OrderDataSource(...): __init__
Construct ==
    /\ pc = "start"
    /\ LET loaded == load_product_data(file_exists)
       IN  IF loaded.ok
           THEN /\ products_json' = loaded.data
                /\ date' = get_next_black_friday_date(today)
                /\ pc' = "created"
                /\ UNCHANGED <<raised, exit_code>>
           ELSE /\ raised' = loaded.error
                /\ exit_code' = IF main_catches(loaded.error) THEN 0 ELSE 1
                /\ pc' = "aborted"
                /\ UNCHANGED <<products_json, date>>
    /\ UNCHANGED <<StreamVars, ConfigVars, OrderVars, interrupted_at>>

\* the loop of the stream reaches the next position of the shuffled list, or
\* its end.  The shuffle is uniform and nothing reads the list before the pair
\* is used: which pair stands at the position is resolved where it is used
\* (Synthesize)
LoopHead(rest) ==
    IF rest = {}
    THEN /\ pc' = "done"
         /\ exit_code' = 0
         /\ UNCHANGED total_orders
    ELSE /\ pc' = "sleeping"
         /\ total_orders' = total_orders + 1
         /\ UNCHANGED exit_code

\* the first next(): all_orders is built and shuffled, the loop is entered
BeginStream ==
    /\ pc = "created"
    /\ pending' = all_orders(num_users)
    /\ LoopHead(all_orders(num_users))
    /\ UNCHANGED <<emitted, n_yielded, n_printed, synth_calls, ConfigVars,
                   OrderVars, products_json, date, interrupted_at, raised>>

\* time.sleep(random.uniform(MIN_DELAY_EVENTS, MAX_DELAY_EVENTS)) returns
Delay ==
    /\ pc = "sleeping"
    /\ pc' = "synth"
    /\ UNCHANGED <<StreamVars, ConfigVars, OrderVars, products_json, date,
                   interrupted_at, raised, exit_code>>

\* _generate_random_order_data(user_id, order_num); yield json.dumps(...)
Synthesize ==
    /\ pc = "synth"
    /\ synth_calls' = synth_calls + 1
    /\ \E p \in pending :
         /\ pending' = pending \ {p}
         /\ IF products_json = <<>>
            THEN \* random.choice of an empty list: IndexError, re-raised to __main__
                 /\ raised' = "IndexError"
                 /\ exit_code' = IF main_catches("IndexError") THEN 0 ELSE 1
                 /\ pc' = "aborted"
                 /\ UNCHANGED <<emitted, n_yielded>>
            ELSE /\ emitted' = emitted \cup {p}
                 /\ n_yielded' = n_yielded + 1
                 /\ pc' = "yielded"
                 /\ UNCHANGED <<raised, exit_code>>
    /\ UNCHANGED <<total_orders, n_printed, ConfigVars, OrderVars,
                   products_json, date, interrupted_at>>

\* print(order_data), then the stream is resumed after its yield
Consume ==
    /\ pc = "yielded"
    /\ n_printed' = n_printed + 1
    /\ IF total_orders >= TOTAL_ORDERS
       THEN pc' = "done" /\ exit_code' = 0 /\ UNCHANGED total_orders
       ELSE LoopHead(pending)
    /\ UNCHANGED <<pending, emitted, n_yielded, synth_calls, ConfigVars,
                   OrderVars, products_json, date, interrupted_at, raised>>

\* the interruption signal: KeyboardInterrupt is raised where the program is
Interrupt ==
    /\ pc \in {"start", "created", "sleeping", "synth", "yielded"}
    /\ interrupted_at' = pc
    /\ IF pc \in {"sleeping", "synth"} /\ ~stream_propagates("KeyboardInterrupt")
       THEN \* a stream that kept the signal: the record completes, the stream ends
            \E p \in pending :
                /\ pending' = pending \ {p}
                /\ emitted' = emitted \cup {p}
                /\ n_yielded' = n_yielded + 1
                /\ n_printed' = n_printed + 1
                /\ raised' = "none"
                /\ exit_code' = 0
                /\ pc' = "exited"
       ELSE /\ raised' = "KeyboardInterrupt"
            /\ exit_code' = IF main_catches("KeyboardInterrupt") THEN 0 ELSE 1
            /\ pc' = "exited"
            /\ UNCHANGED <<pending, emitted, n_yielded, n_printed>>
    /\ UNCHANGED <<total_orders, synth_calls, ConfigVars, OrderVars,
                   products_json, date>>

Init ==
    /\ pc = "start"
    /\ today = DefaultToday
    /\ file_exists \in BOOLEAN
    /\ \E args \in ConstructorArgs :
         max_total_orders = args[1] /\ max_num_items = args[2]
    /\ num_users \in 0..MaxUsers
    /\ products_json = <<>>
    /\ date = None
    /\ pending = {}
    /\ total_orders = 0
    /\ emitted = {}
    /\ n_yielded = 0
    /\ n_printed = 0
    /\ synth_calls = 0
    /\ interrupted_at = "none"
    /\ raised = "none"
    /\ exit_code = -1
    /\ rng = 0
    /\ mt_salt = 0
    /\ order = None
    /\ first_by_num = <<>>

Next ==
    \/ Construct
    \/ BeginStream
    \/ Delay
    \/ Synthesize
    \/ Consume
    \/ Interrupt

Spec == Init /\ [][Next]_vars

-----------------------------------------------------------------------------
(* SpecDate: _get_next_black_friday_date() for every today *)

ComputeDate ==
    /\ pc = "date_start"
    /\ date' = get_next_black_friday_date(today)
    /\ pc' = "date_done"
    /\ UNCHANGED <<StreamVars, ConfigVars, OrderVars, products_json,
                   interrupted_at, raised, exit_code>>

InitDate ==
    /\ pc = "date_start"
    /\ today \in ValidDates
    /\ file_exists = TRUE
    /\ max_total_orders = TOTAL_ORDERS
    /\ num_users = MAX_NUMBER_USERS
    /\ max_num_items = MAX_NUM_ITEMS_PER_USER
    /\ products_json = DefaultCatalog
    /\ date = None
    /\ pending = {}
    /\ total_orders = 0
    /\ emitted = {}
    /\ n_yielded = 0
    /\ n_printed = 0
    /\ synth_calls = 0
    /\ interrupted_at = "none"
    /\ raised = "none"
    /\ exit_code = -1
    /\ rng = 0
    /\ mt_salt = 0
    /\ order = None
    /\ first_by_num = <<>>

NextDate == ComputeDate

SpecDate == InitDate /\ [][NextDate]_vars

-----------------------------------------------------------------------------
(* SpecOrder: _generate_random_order_data() on a constructed generator *)

GenerateOrder(user_id, order_num) ==
    /\ pc = "order"
    /\ LET o == generate_random_order_data(user_id, order_num, rng, mt_salt,
                                           products_json, max_num_items, date)
       IN  /\ order' = o
           /\ rng' = o.rng
           /\ first_by_num' =
                  IF order_num \in DOMAIN first_by_num \/ user_id /= 1 THEN first_by_num
                  ELSE (order_num :> SeededFields(o)) @@ first_by_num
    /\ UNCHANGED <<pc, pending, total_orders, emitted, n_yielded, n_printed,
                   synth_calls,
                   ConfigVars, mt_salt, products_json, date, interrupted_at,
                   raised, exit_code>>

InitOrder ==
    /\ pc = "order"
    /\ today = DefaultToday
    /\ file_exists = TRUE
    /\ max_total_orders = TOTAL_ORDERS
    /\ num_users = MaxUserId
    /\ max_num_items \in 1..MaxItemsArg
    /\ products_json \in Catalogs
    /\ date = get_next_black_friday_date(DefaultToday)
    /\ pending = {}
    /\ total_orders = 0
    /\ emitted = {}
    /\ n_yielded = 0
    /\ n_printed = 0
    /\ synth_calls = 0
    /\ interrupted_at = "none"
    /\ raised = "none"
    /\ exit_code = -1
    /\ rng \in { (k * RngMod) \div MaxEntropy : k \in 0..(MaxEntropy - 1) }
    /\ mt_salt \in 0..(RngMod - 1)
    /\ order = None
    /\ first_by_num = <<>>

NextOrder ==
    \E user_id \in 1..MaxUserId, order_num \in 1..MaxOrderNum :
        GenerateOrder(user_id, order_num)

SpecOrder == InitOrder /\ [][NextOrder]_vars

-----------------------------------------------------------------------------
(* Properties *)

FourthThursday(y, m) ==
    LET IsThursday(dd) == weekday([year |-> y, month |-> m, day |-> dd]) = THURSDAY
    IN  [year |-> y, month |-> m,
         day |-> CHOOSE dd \in 1..DaysInMonth(y, m) :
                     /\ IsThursday(dd)
                     /\ Cardinality({e \in 1..dd : IsThursday(e)}) = 4]

\* the promotional date of year y: the day after the 4th Thursday of the month
PromotionalDate(y) ==
    LET th == FourthThursday(y, BLACK_FRIDAY_MONTH)
    IN  CHOOSE d \in { [year |-> y, month |-> m, day |-> dd] :
                         m \in {BLACK_FRIDAY_MONTH, BLACK_FRIDAY_MONTH + 1},
                         dd \in 1..31 } :
            toordinal(d) = toordinal(th) + 1 /\ d.day <= DaysInMonth(y, d.month)

InProgress == interrupted_at \in {"sleeping", "synth"}

\* the weight the table pairs with candidate c
PairedWeight(choices, weights, c) ==
    weights[CHOOSE i \in 1..Len(choices) : choices[i] = c]

\* C1: a generator constructed with total_orders = total_cap emits at most
\* total_cap records in a run; with num_users = 1, max_items = 1, total_cap = 1
\* a finished run has emitted exactly one record.
C1_AtMostTotalCap ==
    /\ n_yielded <= max_total_orders
    /\ (pc = "done" /\ num_users = 1 /\ max_num_items = 1 /\ max_total_orders = 1)
           => n_yielded = 1

\* C2: every emitted record belongs to a pair with user_id in [1, num_users]
\* and order_num in [1, max_num_items] of the generator, no pair is emitted
\* twice, and the number of records never exceeds num_users * max_num_items.
C2_PairsWithinConfiguration ==
    /\ \A p \in emitted : p[1] \in 1..num_users /\ p[2] \in 1..max_num_items
    /\ n_yielded = Cardinality(emitted)
    /\ n_yielded <= num_users * max_num_items

\* C3: for every today, the computed date is a Friday of the target month and
\* exactly one day after the 4th Thursday of that month in the resolved year.
C3_FridayAfterFourthThursday ==
    pc = "date_done" =>
        /\ weekday(date) = FRIDAY
        /\ date.month = BLACK_FRIDAY_MONTH
        /\ date.year \in {today.year, today.year + 1}
        /\ toordinal(date) =
               toordinal(FourthThursday(date.year, BLACK_FRIDAY_MONTH)) + 1

\* C3 witness: a today in December, whose date is resolved in the next year.
C3_Witness ==
    /\ pc = "date_done"
    /\ today.month = 12
    /\ date.year = today.year + 1
    /\ date.day /= 27

\* C4: for every today, the computed date is the next promotional date: it is
\* not before today, and no promotional date lies on or after today and
\* strictly before it.
C4_NextOccurrence ==
    pc = "date_done" =>
        /\ toordinal(date) >= toordinal(today)
        /\ \A y \in {today.year, today.year + 1} :
               ~ (/\ toordinal(PromotionalDate(y)) >= toordinal(today)
                  /\ toordinal(PromotionalDate(y)) < toordinal(date))

\* C5: with the catalog file missing the run aborts with an error during
\* construction: the order synthesizer is never called and no record is
\* emitted or printed.
C5_MissingCatalogAborts ==
    ~file_exists =>
        /\ synth_calls = 0
        /\ n_yielded = 0
        /\ n_printed = 0
        /\ pc \in {"start", "aborted", "exited"}
        /\ pc = "aborted" =>
               /\ raised = "FileNotFoundError"
               /\ exit_code = 1
               /\ date = None

\* C5 witness: construction has aborted on the missing file.
C5_Witness == ~file_exists /\ pc = "aborted" /\ num_users > 0

\* C6 as stated: an interruption that arrives while a record is in progress
\* (its delay or its synthesis) lets that record complete and be emitted, and
\* is not raised out of the stream to its caller.
C6_InProgressRecordCompletes ==
    (pc = "exited" /\ InProgress) =>
        /\ n_yielded = total_orders
        /\ raised /= "KeyboardInterrupt"

\* C6 as amended: an interruption that arrives while a record is in progress
\* is raised out of the stream to __main__ at once; the record in progress is
\* abandoned, neither emitted nor printed, and __main__ exits with status 0.
C6_InterruptAbandonsRecord ==
    (pc = "exited" /\ InProgress) =>
        /\ n_yielded = total_orders - 1
        /\ n_printed = n_yielded
        /\ Cardinality(emitted) = n_yielded
        /\ raised = "KeyboardInterrupt"
        /\ exit_code = 0

\* C6 witness: the signal arrived during the synthesis of the third record.
C6_Witness ==
    /\ pc = "exited"
    /\ interrupted_at = "synth"
    /\ total_orders = 3
    /\ n_printed = 2

\* C7: in every order, a subscriber pays no shipping, and a non-subscriber's
\* shipping cost lies between 1% and 10% of total_order_price, to the rounding
\* to 2 decimals (half a cent).
C7_ShippingCost ==
    order /= None =>
        /\ order.subscriber_user => order.shipping_cost = 0
        /\ ~order.subscriber_user =>
               /\ 200 * order.shipping_cost >= (2 * order.total_order_price) - 100
               /\ 20 * order.shipping_cost <= (2 * order.total_order_price) + 10

\* C7 witness: a subscriber's order of two items, shipped for nothing.
C7_Witness ==
    /\ order /= None
    /\ order.subscriber_user
    /\ order.shipping_cost = 0
    /\ order.num_ordered_items = 2

\* C8 as stated: the weight table of the coupon draw pairs candidate true with
\* 0.3 and candidate false with 0.7.
C8_TrueWeighs03 ==
    order /= None =>
        /\ PairedWeight(<<TRUE, FALSE>>, WEIGHTS_COUPON_APPLIED, TRUE) = 3
        /\ PairedWeight(<<TRUE, FALSE>>, WEIGHTS_COUPON_APPLIED, FALSE) = 7

\* C8 as amended: the weight table pairs candidate true with 0.7 and candidate
\* false with 0.3, and an order has its coupon applied exactly when its draw
\* falls in the first 0.7 of the range.
C8_TrueWeighs07 ==
    order /= None =>
        /\ PairedWeight(<<TRUE, FALSE>>, WEIGHTS_COUPON_APPLIED, TRUE) = 7
        /\ PairedWeight(<<TRUE, FALSE>>, WEIGHTS_COUPON_APPLIED, FALSE) = 3
        /\ order.discount_coupon_applied <=> 10 * order.coupon_draw < 7 * RngMod

\* C8 witness: a coupon applied on a draw beyond the first 0.3 of the range.
C8_Witness ==
    /\ order /= None
    /\ order.discount_coupon_applied
    /\ 10 * order.coupon_draw >= 3 * RngMod

\* C9 as stated: with a valid non-empty catalog there are orders whose
\* shipping_cost + discount_coupon_value + sales_tax_value exceeds
\* total_order_price, so that net_total_order_price is below zero.
C9_NegativeNetExists ==
    \E salt \in 0..(RngMod - 1), catalog \in Catalogs, max_items \in 1..MaxItemsArg,
       user_id \in 1..MaxUserId, order_num \in 1..MAX_NUM_ITEMS_PER_USER,
       s \in {0, RngMod - 1} :
        generate_random_order_data(user_id, order_num, s, salt, catalog, max_items,
                                   date).net_total_order_price < 0

\* C9 as amended: net_total_order_price has no floor, and needs none: in every
\* order shipping_cost + discount_coupon_value + sales_tax_value stays below
\* total_order_price, so that net_total_order_price is above zero.
C9_NetAboveZero ==
    order /= None =>
        /\ order.net_total_order_price =
               order.total_order_price - order.shipping_cost
               - order.discount_coupon_value - order.sales_tax_value
        /\ order.shipping_cost + order.discount_coupon_value + order.sales_tax_value
               < order.total_order_price
        /\ order.net_total_order_price > 0

\* C9 witness: a small order that bears the largest coupon, shipping and tax.
C9_Witness ==
    /\ order /= None
    /\ order.discount_coupon_applied
    /\ order.discount_coupon_value = 20
    /\ order.shipping_cost > 0
    /\ order.sales_tax_value > 0
    /\ order.total_order_price < 2000

\* C10: for a fixed catalog and max_num_items, two orders with the same
\* order_num have the same ordered_items, num_ordered_items, total_order_price,
\* payment_method, coupon fields, sales_tax_value and shipping_method, whatever
\* their user_id and the draws made before them.
C10_SameOrderNumSameFields ==
    (order /= None /\ order.order_num \in DOMAIN first_by_num) =>
        SeededFields(order) = first_by_num[order.order_num]

\* C10 witness: another user's order with an order_num user 1 had before.
C10_Witness ==
    /\ order /= None
    /\ order.order_num \in DOMAIN first_by_num
    /\ order.user_id /= 1
    /\ order.subscriber_user
    /\ order.num_ordered_items = 2

=============================================================================
